---- MODULE Spec2Model ----
(***************************************************************************)
(* Bearer-token authentication with a cached JSON Web Key Set.            *)
(*                                                                         *)
(* The model follows src/app/JwksCache.py (JwksCache: refresh, get_jwk,   *)
(* _parse_ttl_from_headers) and src/app/oauth2_middleware.py              *)
(* (verify_token, _public_key_from_jwk, OAuth2Middleware.dispatch).       *)
(* The identity provider, the wall clock and the callers are the          *)
(* environment.  Every caller runs the code line by line (pc), so that    *)
(* the same actions serve a sequential and an interleaved specification.  *)
(***************************************************************************)
EXTENDS Integers, Sequences, FiniteSets, TLC

VARIABLES
    clock,          \* time.time(), in seconds
    ticks,          \* number of clock advances so far (bounds the model)
    keys_by_kid,    \* JwksCache._keys_by_kid
    expires_at,     \* JwksCache._expires_at
    loaded,         \* history: some refresh has stored a KeySet
    last,           \* history: the last run of line 48 (header, time) and
                    \*   whether the mapping is still that of its response
    pc,             \* per caller: position in verify_token / get_jwk / refresh
    tok,            \* per caller: the token being verified
    req,            \* per caller: the HTTP request being dispatched
    jwk,            \* per caller: local `jwk` of get_jwk / verify_token
    resp,           \* per caller: the HTTP response held by refresh
    ret,            \* per caller: outcome of the operation
    h               \* per caller: history of the current call

vars == <<clock, ticks, keys_by_kid, expires_at, loaded, last,
          pc, tok, req, jwk, resp, ret, h>>

-----------------------------------------------------------------------------
(* Bounds of the model *)

MaxTicks == 2

-----------------------------------------------------------------------------
(* Program constants *)

DEFAULT_JWKS_TTL == 3600
HTTP_TIMEOUT == 3
CLOCK_SKEW_LEEWAY == 10
ALGORITHMS_WithES256 == {"RS256", "ES256"}   \* a variant that admits ES256
ALGORITHMS == {"RS256"}
AUDIENCE == "aud-agent"
ISSUER == "https://idp"
CIRCUIT_CLIENT_ID == "client-1"

-----------------------------------------------------------------------------
(* Values *)

Procs == {"p1", "p2"}

Absent == "<absent>"          \* a claim or header parameter that is not there
None == [kid |-> "<None>", kty |-> "<None>", mat |-> "<None>"]   \* Python None

JWK(kid, kty, mat) == [kid |-> kid, kty |-> kty, mat |-> mat]

K1 == JWK("k1", "RSA", "m1")
K1new == JWK("k1", "RSA", "m9")
K2 == JWK("k2", "RSA", "m2")
K2ec == JWK("k2", "EC", "m2")
K2oct == JWK("k2", "oct", "m2")
KNoKid == JWK(Absent, "RSA", "m3")
BadEntry == JWK(Absent, "<not-an-object>", Absent)   \* e.g. the JSON number 5

Kids == {"k1", "k2"}

\* The JWKS documents the provider may serve ("keys" arrays).
KeySets == { <<>>, <<K1>>, <<K1, K2>>, <<K2ec, KNoKid>>, <<K2oct, K1, K1new>> }

\* Clock advances: within a TTL, across max-age=60, across the default TTL.
TickSteps == {1, 60, DEFAULT_JWKS_TTL}

\* Cache-Control headers: a comma separated list of directives, each a name
\* and, after "=", an argument (Absent when there is no "=").
Dir(name, arg) == [name |-> name, arg |-> arg]
Headers == { <<>>,
             <<Dir("no-transform", Absent), Dir("Max-Age", "60")>>,
             <<Dir("max-age", "abc"), Dir("max-age", "0")>>,
             <<Dir("max-age", "1e400")>> }

\* Why an HTTP fetch fails before a "keys" array is obtained (lines 42-45):
\* connection error, timeout after HTTP_TIMEOUT, non-2xx status, bad JSON.
TransportFailures == {"network", "timeout", "status", "json"}

\* The "keys" arrays a successful GET may carry: a KeySet, possibly followed
\* by an entry that is not a JSON object.
Bodies == KeySets \cup {<<K1, BadEntry>>}

-----------------------------------------------------------------------------
(* JwksCache._parse_ttl_from_headers *)

Lower(s) == IF s = "Max-Age" THEN "max-age" ELSE s

\* int(text): the digits strings of the model; anything else is a ValueError.
IsInt(s) == s \in {"0", "60", "1e400"}
IntOf(s) == CASE s = "0" -> 0
              [] s = "60" -> 60
              [] OTHER -> -1

\* "1e400" stands for a decimal integer above the float range (10^400):
\* int() accepts it, and time.time() + ttl then raises OverflowError.
Overflows(s) == s = "1e400"

RECURSIVE ParseFrom(_, _)
ParseFrom(cc, i) ==
    IF i > Len(cc) THEN [kind |-> "default", arg |-> Absent]
    ELSE IF Lower(cc[i].name) = "max-age" /\ cc[i].arg # Absent /\ IsInt(cc[i].arg)
         THEN [kind |-> "max-age", arg |-> cc[i].arg]
         ELSE ParseFrom(cc, i + 1)

\* Variant of lines 34-38 that takes a max-age of 0 for none (`if ttl:`).
parse_ttl_from_headers_ZeroAsDefault(cc, ttl_seconds) ==
    LET p == ParseFrom(cc, 1) IN
    IF p.kind = "default" \/ p.arg = "0" THEN [ok |-> TRUE, ttl |-> ttl_seconds]
    ELSE IF Overflows(p.arg) THEN [ok |-> FALSE, ttl |-> 0]
    ELSE [ok |-> TRUE, ttl |-> IntOf(p.arg)]

\* The ttl returned, or "overflow" when the sum at line 48 cannot be formed.
parse_ttl_from_headers(cc, ttl_seconds) ==
    LET p == ParseFrom(cc, 1) IN
    IF p.kind = "default" THEN [ok |-> TRUE, ttl |-> ttl_seconds]
    ELSE IF Overflows(p.arg) THEN [ok |-> FALSE, ttl |-> 0]
    ELSE [ok |-> TRUE, ttl |-> IntOf(p.arg)]

-----------------------------------------------------------------------------
(* JwksCache.refresh, line 46: the kid -> JWK mapping of a "keys" array *)

IsObject(e) == e.kty # "<not-an-object>"
WellFormed(keys) == \A i \in 1..Len(keys) : IsObject(keys[i])

KidsOf(keys) == {keys[i].kid : i \in 1..Len(keys)} \ {Absent}

LastIndex(keys, k) ==
    CHOOSE i \in 1..Len(keys) :
        /\ keys[i].kid = k
        /\ \A j \in 1..Len(keys) : keys[j].kid = k => j <= i

KeysByKid(keys) == [k \in KidsOf(keys) |-> keys[LastIndex(keys, k)]]

\* dict.get(kid)
Get(m, kid) == IF kid \in DOMAIN m THEN m[kid] ELSE None

Empty == [k \in {} |-> None]

\* Variants of line 59: one that ignores expiry, one that always refreshes.
NeedsRefresh_EmptyOnly(t, exp, keys) == keys = Empty
NeedsRefresh_Always(t, exp, keys) == t >= exp \/ keys = Empty \/ t < exp

\* Variant of line 59 without `or not self._keys_by_kid`.
NeedsRefresh_ExpiredOnly(t, exp, keys) == t >= exp

\* Line 59: refresh if the cache is empty or expired.
NeedsRefresh(t, exp, keys) == t >= exp \/ keys = Empty

-----------------------------------------------------------------------------
(* Tokens *)

ClaimNames == {"exp", "nbf", "iss", "aud", "cid"}

\* What the header of a token may look like.
TokenHeaders == [form : {"ok", "malformed"}, kid : Kids \cup {Absent, ""}]

NonString == "<non-string>"     \* a cid that is a JSON number or list

\* What jwt.decode reads of a token at time t: the alg of its header, the
\* key that signed it and its payload.  `claims` is the set of claims
\* present; an absent claim has the neutral value.
Payloads(t) ==
    { [alg |-> g, signer |-> s, claims |-> cl,
       exp |-> IF "exp" \in cl THEN t + e ELSE 0,
       nbf |-> IF "nbf" \in cl THEN t + n ELSE 0,
       iss |-> IF "iss" \in cl THEN i ELSE Absent,
       aud |-> IF "aud" \in cl THEN a ELSE {},
       cid |-> IF "cid" \in cl THEN c ELSE Absent] :
         g \in {"RS256", "ES256"},
         s \in {"m1", "m2"}, cl \in SUBSET ClaimNames,
         e \in {-11, -9}, n \in {9, 11},
         i \in {ISSUER, "https://evil"},
         a \in {{AUDIENCE}, {"aud-other"}},
         c \in {CIRCUIT_CLIENT_ID, "intruder", NonString} }

\* A token every check of which passes when its signer's key is found, and
\* three tokens that are rejected whatever the key.
Good(t, s) == [alg |-> "RS256", signer |-> s, claims |-> ClaimNames,
               exp |-> t - 9, nbf |-> t + 9, iss |-> ISSUER,
               aud |-> {AUDIENCE}, cid |-> CIRCUIT_CLIENT_ID]

CorePayloads(t) ==
    { Good(t, "m1"), Good(t, "m2"),
      [Good(t, "m1") EXCEPT !.exp = t - 11],
      [Good(t, "m1") EXCEPT !.alg = "ES256"] }

NoPayload == [alg |-> Absent, signer |-> Absent, claims |-> {}, exp |-> 0, nbf |-> 0,
              iss |-> Absent, aud |-> {}, cid |-> Absent]

NoToken == [hdr |-> [form |-> Absent, kid |-> Absent],
            pl |-> NoPayload]

-----------------------------------------------------------------------------
(* verify_token, lines 66-104 *)

\* _public_key_from_jwk: the key family, or the ValueError of line 38.
public_key_from_jwk(k) ==
    IF k.kty \in {"RSA", "EC"} THEN k.kty ELSE "ValueError"

\* Variant of line 86 that applies no leeway.
Expired_NoLeeway(exp, t) == exp <= t

\* verify_exp with leeway=CLOCK_SKEW_LEEWAY (lines 81, 86).
Expired(exp, t) == exp <= t - CLOCK_SKEW_LEEWAY

\* Variant of lines 76 and 84 with the audience check switched off.
AudienceOk_NotVerified(aud) == TRUE

\* audience=AUDIENCE with verify_aud (lines 76, 84).
AudienceOk(aud) == AUDIENCE \in aud

\* Variant of line 79 that does not require exp.
RequiredClaims_NoExp == {"iss", "aud"}

\* options["require"] of the jwt.decode call (line 79).
RequiredClaims == {"exp", "iss", "aud"}

\* jwt.decode(token, public_key, algorithms=ALGORITHMS, audience=AUDIENCE,
\* issuer=ISSUER, options=..., leeway=CLOCK_SKEW_LEEWAY) at time t: the
\* exception raised, or "payload".
jwt_decode(pl, key, mat, t) ==
    IF pl.alg \notin ALGORITHMS THEN "InvalidAlgorithmError"
    ELSE IF key # "RSA" THEN "InvalidKeyError"
    ELSE IF pl.signer # mat THEN "InvalidSignatureError"
    ELSE IF ~(RequiredClaims \subseteq pl.claims) THEN "MissingRequiredClaimError"
    ELSE IF "nbf" \in pl.claims /\ pl.nbf > t + CLOCK_SKEW_LEEWAY
         THEN "ImmatureSignatureError"
    ELSE IF "exp" \in pl.claims /\ Expired(pl.exp, t)
         THEN "ExpiredSignatureError"
    ELSE IF "iss" \notin pl.claims THEN "MissingRequiredClaimError"
    ELSE IF pl.iss # ISSUER THEN "InvalidIssuerError"
    ELSE IF "aud" \notin pl.claims THEN "MissingRequiredClaimError"
    ELSE IF ~AudienceOk(pl.aud) THEN "InvalidAudienceError"
    ELSE "payload"

\* Lines 89-97.  CIRCUIT_CLIENT_ID is a str, so `in` is a substring test and
\* raises TypeError for a cid that is not a str; its result is not used:
\* both ways of a str cid reach a `return True`.
cid_check(pl) ==
    IF "cid" \in pl.claims
    THEN IF pl.cid = NonString THEN "TypeError"
         ELSE IF pl.cid = CIRCUIT_CLIENT_ID THEN "True" ELSE "True"
    ELSE "False"

\* Variant of lines 66-97 that looks at the cid before the token is decoded.
verify_outcome_CidFirst(pl, k, t) ==
    LET key == public_key_from_jwk(k) IN
    IF cid_check(pl) = "False" THEN "no cid"
    ELSE IF key = "ValueError" THEN "ValueError"
    ELSE IF jwt_decode(pl, key, k.mat, t) # "payload"
         THEN jwt_decode(pl, key, k.mat, t)
    ELSE IF cid_check(pl) = "True" THEN "accept"
    ELSE cid_check(pl)

\* Lines 66-104 once the JWK is found: "accept" for `return True`, else what
\* is logged before `return False`.
verify_outcome(pl, k, t) ==
    LET key == public_key_from_jwk(k) IN
    IF key = "ValueError" THEN "ValueError"
    ELSE IF jwt_decode(pl, key, k.mat, t) # "payload"
         THEN jwt_decode(pl, key, k.mat, t)
    ELSE IF cid_check(pl) = "True" THEN "accept"
    ELSE IF cid_check(pl) = "False" THEN "no cid"
    ELSE cid_check(pl)

verify_with_key(pl, k, t) == verify_outcome(pl, k, t) = "accept"

-----------------------------------------------------------------------------
(* HTTP requests to the middleware *)

Paths == {"/healthz", "/readyz", "/public", "/mcp"}

\* Authorization headers: none, another scheme, a bearer token.
AuthHeaders == {Absent, "Basic dXNlcg==", "Bearer t0k3n"}

Requests == [path : Paths, auth : AuthHeaders, public_paths : {{}, {"/public"}}]

NoRequest == [path |-> Absent, auth |-> Absent, public_paths |-> {}]

-----------------------------------------------------------------------------
(* State *)

NoResp == [keys |-> <<>>, cc |-> <<>>]

\* No refresh has set _expires_at yet.
NoLast == [set |-> FALSE, cc |-> <<>>, at |-> 0, paired |-> FALSE]

\* History of one call: the refresh attempts made for each cause, the
\* refreshes completed, the failure caught for each cause, the cache as
\* get_jwk found it on entry and as the running refresh found it, whether
\* a response received had an entry of the kid asked for (anyHas), and the
\* entries of that kid in the response stored last (got).
NoHist == [op |-> "none", phase |-> "none", nTtl |-> 0, nRot |-> 0, nOk |-> 0,
           ttlFail |-> "none", rotFail |-> "none",
           anyHas |-> FALSE, got |-> <<>>,
           entryJwk |-> None, entryStale |-> FALSE, entryEmpty |-> FALSE,
           entryLoaded |-> FALSE, entryBusy |-> FALSE, preKeys |-> Empty, preExp |-> 0,
           hit |-> "none", verified |-> FALSE, at |-> 0, reason |-> "none"]

Init ==
    /\ clock = 1
    /\ ticks = 0
    /\ keys_by_kid = Empty
    /\ expires_at = 0
    /\ loaded = FALSE
    /\ last = NoLast
    /\ pc = [c \in Procs |-> "idle"]
    /\ tok = [c \in Procs |-> NoToken]
    /\ req = [c \in Procs |-> NoRequest]
    /\ jwk = [c \in Procs |-> None]
    /\ resp = [c \in Procs |-> NoResp]
    /\ ret = [c \in Procs |-> "none"]
    /\ h = [c \in Procs |-> NoHist]

-----------------------------------------------------------------------------
(* Environment *)

\* Time passes.
Tick ==
    /\ ticks < MaxTicks
    /\ \E d \in TickSteps : clock' = clock + d
    /\ ticks' = ticks + 1
    /\ UNCHANGED <<keys_by_kid, expires_at, loaded, last,
                   pc, tok, req, jwk, resp, ret, h>>

-----------------------------------------------------------------------------
(* OAuth2Middleware.dispatch, lines 117-158 *)

\* The response of dispatch: "call_next" when the request is forwarded to
\* the application.  Lines 138-156, which would call verify_token and
\* answer 401 or 403, are commented out in the source.
dispatch(r) ==
    IF r.path \in {"/healthz", "/readyz"} THEN "call_next"
    ELSE IF r.path \in r.public_paths THEN "call_next"
    ELSE "call_next"

\* One request through the middleware; public_paths is what the instance
\* serving it was constructed with.
Dispatch(c) ==
    /\ pc[c] = "idle"
    /\ \E r \in Requests :
         /\ req' = [req EXCEPT ![c] = r]
         /\ ret' = [ret EXCEPT ![c] = dispatch(r)]
    /\ pc' = [pc EXCEPT ![c] = "done"]
    /\ h' = [h EXCEPT ![c] = [NoHist EXCEPT !.op = "dispatch"]]
    /\ UNCHANGED <<clock, ticks, keys_by_kid, expires_at, loaded, last,
                   tok,  jwk, resp>>

-----------------------------------------------------------------------------
(* verify_token, lines 44-64 *)

\* Variant of line 57 that tests `kid is None`.
MissingKid_NoneOnly(hd) == hd.kid = Absent

\* Line 57, `if not kid`: the header has no kid or an empty one.
MissingKid(hd) == hd.kid \in {Absent, ""}

\* Lines 50-61: parse the header, require a kid, call get_jwk; HD is the
\* set of headers the tokens presented have.
CallWith(c, HD) ==
    /\ pc[c] = "idle"
    /\ \E hd \in HD :
         /\ tok' = [tok EXCEPT ![c] = [hdr |-> hd, pl |-> NoPayload]]
         /\ IF hd.form = "malformed" \/ MissingKid(hd)
            THEN /\ pc' = [pc EXCEPT ![c] = "done"]
                 /\ ret' = [ret EXCEPT ![c] = "False"]
            ELSE /\ pc' = [pc EXCEPT ![c] = "get_jwk"]
                 /\ ret' = ret
    /\ h' = [h EXCEPT ![c] = [NoHist EXCEPT !.op = "verify"]]
    /\ UNCHANGED <<clock, ticks, keys_by_kid, expires_at, loaded, last,
                   req, jwk, resp>>

Call(c) == CallWith(c, TokenHeaders)

-----------------------------------------------------------------------------
(* JwksCache.get_jwk and JwksCache.refresh *)

\* Entering refresh() for the given cause.
EnterRefresh(hist, phase) ==
    [hist EXCEPT !.phase = phase,
                 !.nTtl = IF phase = "ttl" THEN @ + 1 ELSE @,
                 !.nRot = IF phase = "rot" THEN @ + 1 ELSE @,
                 !.preKeys = keys_by_kid, !.preExp = expires_at]

\* Leaving refresh(), by return or by exception.
LeaveRefresh(hist) == [hist EXCEPT !.preKeys = Empty, !.preExp = 0]

\* A caller inside refresh(): its GET is in flight, or it is between the
\* response and the return.
InFetch(c) == pc[c] = "fetch"
InRefresh(c) == pc[c] \in {"fetch", "store_keys", "store_exp", "caught"}

\* Variant in which get_jwk holds a lock from entry to return.
Blocked_ByRefresh(c) == \E d \in Procs \ {c} : InRefresh(d)

\* get_jwk and refresh take no lock: a caller never waits for another.
Blocked(c) == FALSE

\* Lines 57-61; the local `now` is the clock of this step.
GetJwkEnter(c) ==
    /\ pc[c] = "get_jwk"
    /\ ~Blocked(c)
    /\ LET h0 == [h[c] EXCEPT !.entryJwk = Get(keys_by_kid, tok[c].hdr.kid),
                              !.entryStale = clock >= expires_at,
                              !.entryEmpty = keys_by_kid = Empty,
                              !.entryLoaded = loaded,
                              !.entryBusy = \E d \in Procs \ {c} : InFetch(d)] IN
       IF NeedsRefresh(clock, expires_at, keys_by_kid)
       THEN /\ pc' = [pc EXCEPT ![c] = "fetch"]
            /\ h' = [h EXCEPT ![c] = EnterRefresh(h0, "ttl")]
       ELSE /\ pc' = [pc EXCEPT ![c] = "lookup"]
            /\ h' = [h EXCEPT ![c] = h0]
    /\ UNCHANGED <<clock, ticks, keys_by_kid, expires_at, loaded, last,
                   tok, req, jwk, resp, ret>>

\* An exception of refresh() is recorded for the cause it was called for.
Failed(hist, kind) ==
    IF hist.phase = "ttl" THEN [hist EXCEPT !.ttlFail = kind]
                          ELSE [hist EXCEPT !.rotFail = kind]

\* Lines 42-45: the GET, raise_for_status, json(), body.get("keys"), with
\* a provider that answers with a "keys" array of B and a header of H.
FetchFrom(c, B, H) ==
    /\ pc[c] = "fetch"
    /\ \/ \E f \in TransportFailures :
            /\ h' = [h EXCEPT ![c] = Failed(@, "transport")]
            /\ pc' = [pc EXCEPT ![c] = "caught"]
            /\ resp' = resp
       \/ \E b \in B, cc \in H :
            /\ resp' = [resp EXCEPT ![c] = [keys |-> b, cc |-> cc]]
            /\ pc' = [pc EXCEPT ![c] = "store_keys"]
            /\ h' = [h EXCEPT ![c].anyHas =
                        @ \/ \E i \in 1..Len(b) : b[i].kid = tok[c].hdr.kid]
    /\ UNCHANGED <<clock, ticks, keys_by_kid, expires_at, loaded, last,
                   tok, req, jwk, ret>>

Fetch(c) == FetchFrom(c, Bodies, Headers)

\* Variant of line 46 that fills the mapping entry by entry, so that the
\* entries before a bad one stay.
StoredKeys_Partial(keys, old) == KeysByKid(SelectSeq(keys, IsObject))

\* Variant of line 46 that updates the mapping in place (dict.update), so
\* that the kids of earlier responses stay.
StoredKeys_Merge(keys, old) ==
    IF WellFormed(keys)
    THEN [k \in DOMAIN old \cup KidsOf(keys) |->
              IF k \in KidsOf(keys) THEN KeysByKid(keys)[k] ELSE old[k]]
    ELSE old

\* Variant of line 46 that keeps RSA keys only.
StoredKeys_RsaOnly(keys, old) ==
    IF WellFormed(keys)
    THEN KeysByKid(SelectSeq(keys, LAMBDA e : e.kty = "RSA"))
    ELSE old

\* Line 46: the whole mapping is built, then assigned; an entry that is
\* not an object raises before the assignment.
StoredKeys(keys, old) == IF WellFormed(keys) THEN KeysByKid(keys) ELSE old

StoreKeys(c) ==
    /\ pc[c] = "store_keys"
    /\ keys_by_kid' = StoredKeys(resp[c].keys, keys_by_kid)
    /\ IF WellFormed(resp[c].keys)
       THEN /\ pc' = [pc EXCEPT ![c] = "store_exp"]
            /\ loaded' = TRUE
            /\ last' = [last EXCEPT !.paired = FALSE]
            /\ h' = [h EXCEPT ![c].got =
                        SelectSeq(resp[c].keys,
                                  LAMBDA e : e.kid = tok[c].hdr.kid)]
       ELSE /\ pc' = [pc EXCEPT ![c] = "caught"]
            /\ loaded' = loaded
            /\ last' = last
            /\ h' = [h EXCEPT ![c] = Failed(@, "entries")]
    /\ UNCHANGED <<clock, ticks, expires_at, tok, req, jwk, resp, ret>>

\* Variant without line 71: the mapping is not read again.
AfterRefresh_NoRelookup(phase) == IF phase = "ttl" THEN "lookup" ELSE "return"

\* Where get_jwk continues after refresh() returned.
AfterRefresh(phase) == IF phase = "ttl" THEN "lookup" ELSE "rot_lookup"

\* Lines 47-48.
StoreExp(c) ==
    /\ pc[c] = "store_exp"
    /\ LET p == parse_ttl_from_headers(resp[c].cc, DEFAULT_JWKS_TTL) IN
       IF p.ok
       THEN /\ expires_at' = clock + p.ttl
            /\ last' = [set |-> TRUE, cc |-> resp[c].cc, at |-> clock,
                        paired |-> keys_by_kid = KeysByKid(resp[c].keys)]
            /\ pc' = [pc EXCEPT ![c] = AfterRefresh(h[c].phase)]
            /\ h' = [h EXCEPT ![c] = LeaveRefresh([@ EXCEPT !.nOk = @ + 1])]
            /\ resp' = [resp EXCEPT ![c] = NoResp]
       ELSE /\ expires_at' = expires_at
            /\ last' = last
            /\ pc' = [pc EXCEPT ![c] = "caught"]
            /\ h' = [h EXCEPT ![c] = Failed(@, "overflow")]
            /\ resp' = resp
    /\ UNCHANGED <<clock, ticks, keys_by_kid, loaded, tok, req, jwk, ret>>

\* Variants of the except clauses: one that looks up and refreshes again
\* after a failed forced refresh, one that gives up after any failure, one
\* that repeats the GET until it succeeds.
AfterCaught_Retry(phase) == "lookup"
AfterCaught_GiveUp(phase) == "return"
AfterCaught_Refetch(phase) == "fetch"

\* Where get_jwk continues after an except clause (lines 62-63, 72-73).
AfterCaught(phase) == IF phase = "ttl" THEN "lookup" ELSE "return"

Caught(c) ==
    /\ pc[c] = "caught"
    /\ pc' = [pc EXCEPT ![c] = AfterCaught(h[c].phase)]
    /\ resp' = [resp EXCEPT ![c] = NoResp]
    /\ h' = [h EXCEPT ![c] = LeaveRefresh(@)]
    /\ UNCHANGED <<clock, ticks, keys_by_kid, expires_at, loaded, last,
                   tok, req, jwk, ret>>

\* Lines 65-70.
Lookup(c) ==
    /\ pc[c] = "lookup"
    /\ LET k == Get(keys_by_kid, tok[c].hdr.kid) IN
       /\ jwk' = [jwk EXCEPT ![c] = k]
       /\ IF k = None
          THEN /\ pc' = [pc EXCEPT ![c] = "fetch"]
               /\ h' = [h EXCEPT ![c] = EnterRefresh([@ EXCEPT !.hit = "miss"], "rot")]
          ELSE /\ pc' = [pc EXCEPT ![c] = "return"]
               /\ h' = [h EXCEPT ![c].hit = "hit"]
    /\ UNCHANGED <<clock, ticks, keys_by_kid, expires_at, loaded, last,
                   tok, req,  resp, ret>>

\* Line 71.
RotLookup(c) ==
    /\ pc[c] = "rot_lookup"
    /\ jwk' = [jwk EXCEPT ![c] = Get(keys_by_kid, tok[c].hdr.kid)]
    /\ pc' = [pc EXCEPT ![c] = "return"]
    /\ UNCHANGED <<clock, ticks, keys_by_kid, expires_at, loaded, last,
                   tok, req,  resp, ret, h>>

-----------------------------------------------------------------------------
(* verify_token, lines 61-104: get_jwk has returned *)

\* Variant of lines 99-104 without the `except Exception` clause.
CaughtByVerify_InvalidTokenOnly(reason) ==
    reason \notin {"ValueError", "TypeError"}

\* Lines 99-104: InvalidTokenError and any other Exception are caught.
CaughtByVerify(reason) == TRUE

\* What verify_token gives its caller for an outcome of lines 66-97: a
\* bool, or "raise" for an exception that no except clause catches.
Returned(reason) ==
    IF reason = "accept" THEN "True"
    ELSE IF CaughtByVerify(reason) THEN "False"
    ELSE "raise"

\* P is the set of tokens the callers present.
Decode(c, P) ==
    /\ pc[c] = "return"
    /\ IF jwk[c] = None
       THEN /\ ret' = [ret EXCEPT ![c] = "False"]
            /\ tok' = tok
            /\ h' = [h EXCEPT ![c].at = clock, ![c].reason = "unknown kid"]
       ELSE \E pl \in P :
            /\ tok' = [tok EXCEPT ![c].pl = pl]
            /\ ret' = [ret EXCEPT ![c] =
                   Returned(verify_outcome(pl, jwk[c], clock))]
            /\ h' = [h EXCEPT ![c].at = clock,
                              ![c].reason = verify_outcome(pl, jwk[c], clock)]
    /\ pc' = [pc EXCEPT ![c] = "done"]
    /\ UNCHANGED <<clock, ticks, keys_by_kid, expires_at, loaded, last,
                   req, jwk, resp>>

\* The caller takes the result; the locals of the call are gone.
Return(c) ==
    /\ pc[c] = "done"
    /\ pc' = [pc EXCEPT ![c] = "idle"]
    /\ tok' = [tok EXCEPT ![c] = NoToken]
    /\ req' = [req EXCEPT ![c] = NoRequest]
    /\ jwk' = [jwk EXCEPT ![c] = None]
    /\ ret' = [ret EXCEPT ![c] = "none"]
    /\ h' = [h EXCEPT ![c] = NoHist]
    /\ UNCHANGED <<clock, ticks, keys_by_kid, expires_at, loaded, last, resp>>

-----------------------------------------------------------------------------
(* Specifications *)

\* The steps of get_jwk and refresh.
CacheStep(c) ==
    \/ GetJwkEnter(c)
    \/ Fetch(c)
    \/ StoreKeys(c)
    \/ StoreExp(c)
    \/ Caught(c)
    \/ Lookup(c)
    \/ RotLookup(c)

\* One request at a time: which caller serves it is immaterial.
Main == CHOOSE c \in Procs : TRUE

\* The key cache under a moving clock, with a few tokens.
Next ==
    \/ Tick
    \/ Dispatch(Main)
    \/ Call(Main)
    \/ CacheStep(Main)
    \/ Decode(Main, CorePayloads(clock))
    \/ Return(Main)

Spec == Init /\ [][Next]_vars

\* The verifier over every token, at one instant.
NextVerify ==
    \/ Dispatch(Main)
    \/ Call(Main)
    \/ CacheStep(Main)
    \/ Decode(Main, Payloads(clock))
    \/ Return(Main)

SpecVerify == Init /\ [][NextVerify]_vars

\* Several requests at once on the one cache of the process: the steps of
\* the callers interleave line by line, as those of threads do.
\* The provider rotates between two KeySets and sends no max-age; the
\* tokens name a key.
ConcBodies == { <<K1>>, <<K2ec, KNoKid>> }
ConcHeaders == { <<>> }
ConcTokenHeaders == {hd \in TokenHeaders : hd.form = "ok" /\ hd.kid \in Kids}

\* Their payloads: a valid token of k1, and one whose cid is not a string.
ConcPayloads(t) == { Good(t, "m1"), [Good(t, "m1") EXCEPT !.cid = NonString] }

NextConc ==
    \E c \in Procs :
        \/ CallWith(c, ConcTokenHeaders)
        \/ GetJwkEnter(c)
        \/ FetchFrom(c, ConcBodies, ConcHeaders)
        \/ StoreKeys(c)
        \/ StoreExp(c)
        \/ Caught(c)
        \/ Lookup(c)
        \/ RotLookup(c)
        \/ Decode(c, ConcPayloads(clock))
        \/ Return(c)

SpecConc == Init /\ [][NextConc]_vars

\* One call at a time, with the steps of a call that has begun always
\* carried on: the caller's thread runs, and the GET of line 42 ends within
\* HTTP_TIMEOUT in a response or an exception.
CallProgress(c) ==
    \/ GetJwkEnter(c)
    \/ FetchFrom(c, ConcBodies, ConcHeaders)
    \/ StoreKeys(c)
    \/ StoreExp(c)
    \/ Caught(c)
    \/ Lookup(c)
    \/ RotLookup(c)
    \/ Decode(c, ConcPayloads(clock))

NextLive ==
    \/ Tick
    \/ CallWith(Main, ConcTokenHeaders)
    \/ CallProgress(Main)
    \/ Return(Main)

SpecLive == Init /\ [][NextLive]_vars /\ WF_vars(CallProgress(Main))

-----------------------------------------------------------------------------
(* Properties *)

AtReturn(c) == pc[c] = "return"
Finished(c) == pc[c] = "done" /\ h[c].op = "verify"
Attempts(c) == h[c].nTtl + h[c].nRot
Kid(c) == tok[c].hdr.kid

\* The failure the except clause being run has caught.
CurrentFail(c) == IF h[c].phase = "ttl" THEN h[c].ttlFail ELSE h[c].rotFail

\* Every fetch of the call failed in transport, and at least one was made.
OnlyTransport(c) ==
    /\ h[c].nOk = 0
    /\ {h[c].ttlFail, h[c].rotFail} \subseteq {"none", "transport"}
    /\ "transport" \in {h[c].ttlFail, h[c].rotFail}

\* Token pl is signed by key k with an allowed algorithm and all its claims
\* but nbf are present and valid at time t; nbf is valid if present.
GoodFor(pl, k, t) ==
    /\ k.kty = "RSA" /\ pl.alg = "RS256" /\ pl.signer = k.mat
    /\ {"exp", "iss", "aud", "cid"} \subseteq pl.claims
    /\ pl.exp > t - CLOCK_SKEW_LEEWAY
    /\ "nbf" \in pl.claims => pl.nbf <= t + CLOCK_SKEW_LEEWAY
    /\ pl.iss = ISSUER /\ AUDIENCE \in pl.aud /\ pl.cid = CIRCUIT_CLIENT_ID

\* C1: verify_token accepts no token without a cid claim or whose cid is
\* not a permitted client identifier.
C1_CidRequired ==
    \A c \in Procs : Finished(c) /\ ret[c] = "True" =>
        "cid" \in tok[c].pl.claims /\ tok[c].pl.cid = CIRCUIT_CLIENT_ID

\* C2, as claimed: verify_token accepts no token that lacks exp or nbf.
C2_ExpAndNbfRequired ==
    \A c \in Procs : Finished(c) /\ ret[c] = "True" =>
        {"exp", "nbf"} \subseteq tok[c].pl.claims

\* C2, amended: verify_token accepts no token that lacks exp; a token that
\* lacks nbf and is valid otherwise is accepted.
C2_ExpRequired ==
    \A c \in Procs : Finished(c) =>
        /\ ret[c] = "True" => "exp" \in tok[c].pl.claims
        /\ jwk[c] # None /\ GoodFor(tok[c].pl, jwk[c], h[c].at)
              /\ "nbf" \notin tok[c].pl.claims => ret[c] = "True"

\* A correctly signed token that lacks only exp has been rejected.
C2_Witness ==
    \E c \in Procs :
        /\ Finished(c) /\ jwk[c] # None
        /\ GoodFor([tok[c].pl EXCEPT !.claims = @ \cup {"exp"}, !.exp = h[c].at],
                   jwk[c], h[c].at)
        /\ tok[c].pl.claims = ClaimNames \ {"exp"}
        /\ ret[c] = "False" /\ h[c].reason = "MissingRequiredClaimError"

\* C3: a request to a path that is neither a health path nor a public path
\* is answered 401 or 403 unless verify_token accepted its token.
C3_ProtectedNeedsToken ==
    \A c \in Procs :
        /\ pc[c] = "done" /\ h[c].op = "dispatch"
        /\ req[c].path \notin {"/healthz", "/readyz"}
        /\ req[c].path \notin req[c].public_paths
        => \/ ret[c] \in {"401", "403"}
           \/ ret[c] = "call_next" /\ h[c].verified

\* The result of get_jwk after a miss in an unexpired cache: one forced
\* refresh and no other, the key iff that refresh completed with the kid.
OneForcedRefresh(c) ==
    /\ Attempts(c) = 1
    /\ jwk[c] # None <=> (h[c].nOk = 1 /\ Kid(c) \in DOMAIN keys_by_kid)
    /\ jwk[c] # None => jwk[c] = keys_by_kid[Kid(c)]

C5_AtMostTwoRefreshes ==
    \A c \in Procs : h[c].nTtl <= 1 /\ h[c].nRot <= 1

\* A call has made both attempts, and both failed.
C5_Witness ==
    \E c \in Procs :
        /\ AtReturn(c) /\ h[c].nTtl = 1 /\ h[c].nRot = 1
        /\ h[c].ttlFail = "transport" /\ h[c].rotFail = "transport"

\* C6: get_jwk on an expired cache makes exactly one refresh attempt before
\* the lookup, whatever the kid; if the lookup then finds the kid no other
\* attempt is made, and a token valid for that key is accepted.
C6_StaleRefreshesOnce ==
    \A c \in Procs :
        /\ pc[c] = "lookup" /\ h[c].entryStale
              => h[c].nTtl = 1 /\ h[c].nRot = 0
        /\ (AtReturn(c) \/ Finished(c)) /\ h[c].entryStale /\ h[c].hit = "hit"
              => Attempts(c) = 1 /\ jwk[c] # None
        /\ Finished(c) /\ h[c].entryStale /\ h[c].hit = "hit"
              /\ GoodFor(tok[c].pl, jwk[c], h[c].at)
              => ret[c] = "True"

\* 61 s after the start a token of a key that was cached and is still
\* published has been accepted after one fetch.
C6_Witness ==
    \E c \in Procs :
        /\ Finished(c) /\ h[c].entryStale /\ h[c].entryJwk # None
        /\ jwk[c] = h[c].entryJwk /\ h[c].nOk = 1 /\ Attempts(c) = 1
        /\ h[c].at = 62 /\ ret[c] = "True"

\* C7: a call for a kid that an unexpired cache holds makes no refresh
\* attempt, at any point and whatever the verdict on the token.
C7_WarmHitNoFetch ==
    \A c \in Procs :
        h[c].op = "verify" /\ h[c].entryJwk # None /\ ~h[c].entryStale
        => Attempts(c) = 0

\* A token with a bad signature has been rejected without any fetch.
C7_Witness ==
    \E c \in Procs :
        /\ Finished(c) /\ h[c].entryJwk # None /\ ~h[c].entryStale
        /\ ret[c] = "False" /\ h[c].reason = "InvalidSignatureError"
        /\ Attempts(c) = 0

\* C8: when the refresh of an expired cache fails in transport, get_jwk
\* returns the JWK the stale KeySet holds for the kid, and makes no other
\* attempt.
C8_StaleKeyServed ==
    \A c \in Procs :
        AtReturn(c) /\ h[c].entryStale /\ h[c].ttlFail = "transport"
            /\ h[c].entryJwk # None
        => jwk[c] = h[c].entryJwk /\ h[c].nRot = 0

\* The stale JWK has been returned after a failed refresh.
C8_Witness ==
    \E c \in Procs :
        /\ AtReturn(c) /\ h[c].entryStale /\ h[c].ttlFail = "transport"
        /\ h[c].entryJwk # None /\ jwk[c] = h[c].entryJwk

\* C9, as claimed: get_jwk returns nothing after a transport failure only
\* when no KeySet was ever loaded.
C9_FailsOnlyWhenNeverLoaded ==
    \A c \in Procs :
        AtReturn(c) /\ jwk[c] = None
            /\ "transport" \in {h[c].ttlFail, h[c].rotFail}
        => ~h[c].entryLoaded

\* C9, amended: when transport failures are all that happened in a call,
\* get_jwk returns what the cache held for the kid on entry: the JWK if it
\* held one, nothing otherwise.
C9_FailsOnlyWhenNotCached ==
    \A c \in Procs :
        AtReturn(c) /\ OnlyTransport(c) => jwk[c] = h[c].entryJwk

\* With a KeySet loaded that lacks the kid, a transport failure has made
\* get_jwk return nothing.
C9_Witness ==
    \E c \in Procs :
        /\ AtReturn(c) /\ OnlyTransport(c) /\ h[c].entryLoaded
        /\ ~h[c].entryEmpty /\ jwk[c] = None

\* C10: when refresh raises for a transport failure or a malformed key
\* entry, the mapping and the expiry are as refresh found them.
C10_FailedFetchKeepsEntry ==
    \A c \in Procs :
        pc[c] = "caught" /\ CurrentFail(c) \in {"transport", "entries"}
        => keys_by_kid = h[c].preKeys /\ expires_at = h[c].preExp

\* A response with a good and a bad entry has been dropped whole.
C10_Witness ==
    \E c \in Procs :
        /\ pc[c] = "caught" /\ CurrentFail(c) = "entries"
        /\ resp[c].keys = <<K1, BadEntry>>
        /\ "k1" \notin DOMAIN keys_by_kid /\ loaded

\* C11: once refresh has stored a response, the mapping has exactly the
\* kids that entries of the response carry, each with the last entry of
\* that kid; a kid cached before and not in the response is gone.
C11_WholeReplacement ==
    \A c \in Procs : pc[c] = "store_exp" =>
        LET keys == resp[c].keys IN
        /\ DOMAIN keys_by_kid = {keys[i].kid : i \in 1..Len(keys)} \ {Absent}
        /\ \A k \in DOMAIN keys_by_kid :
               \E i \in 1..Len(keys) :
                   /\ keys[i].kid = k /\ keys_by_kid[k] = keys[i]
                   /\ \A j \in (i + 1)..Len(keys) : keys[j].kid # k
        /\ \A k \in DOMAIN h[c].preKeys :
               (\A i \in 1..Len(keys) : keys[i].kid # k)
                   => Get(keys_by_kid, k) = None

\* A response with another k2 and an entry without kid has replaced a
\* mapping that held k1 and k2.
C11_Witness ==
    \E c \in Procs :
        /\ pc[c] = "store_exp" /\ resp[c].keys = <<K2ec, KNoKid>>
        /\ DOMAIN h[c].preKeys = {"k1", "k2"} /\ h[c].preKeys["k2"] = K2
        /\ DOMAIN keys_by_kid = {"k2"} /\ keys_by_kid["k2"] = K2ec

\* C12, as claimed: once the cache has expired, get_jwk does not return
\* the copy it holds of a kid that no response carries any more, whatever
\* becomes of the fetches.
C12_NoStaleKeyAfterTtl ==
    \A c \in Procs :
        AtReturn(c) /\ h[c].entryStale /\ h[c].entryJwk # None
            /\ ~h[c].anyHas
        => jwk[c] = None

\* C12, amended: in that case get_jwk returns the stale copy exactly when
\* the refresh for expiry failed before the mapping was replaced, and
\* nothing otherwise.
C12_StaleKeyOnlyOnFailedRefresh ==
    \A c \in Procs :
        AtReturn(c) /\ h[c].entryStale /\ h[c].entryJwk # None
            /\ ~h[c].anyHas
        => /\ jwk[c] # None <=> h[c].ttlFail \in {"transport", "entries"}
           /\ jwk[c] # None => jwk[c] = h[c].entryJwk

\* The refresh of an expired cache has stored a response without k2, and
\* get_jwk("k2") has returned nothing though the forced refresh failed.
C12_Witness ==
    \E c \in Procs :
        /\ AtReturn(c) /\ h[c].entryStale /\ h[c].entryJwk = K2
        /\ ~h[c].anyHas /\ h[c].ttlFail = "none" /\ h[c].nOk = 1
        /\ h[c].rotFail = "transport" /\ jwk[c] = None

C14_AtMostOneInFlight ==
    Cardinality({c \in Procs : InFetch(c)}) <= 1

\* Mapping m holds the entries of `keys` that have a kid, the last one of
\* each kid, and nothing else.
IsWholeOf(m, keys) ==
    /\ DOMAIN m = {keys[i].kid : i \in 1..Len(keys)} \ {Absent}
    /\ \A k \in DOMAIN m :
           \E i \in 1..Len(keys) :
               /\ keys[i].kid = k /\ m[k] = keys[i]
               /\ \A j \in (i + 1)..Len(keys) : keys[j].kid # k

\* C15: whatever the interleaving of the callers, the mapping a lookup
\* reads is the initial empty one or the whole of one response, never a
\* part of a response or a mixture of two.
C15_NoHalfWrittenKeySet ==
    \/ keys_by_kid = Empty /\ ~loaded
    \/ \E b \in Bodies : WellFormed(b) /\ IsWholeOf(keys_by_kid, b)

\* While a caller holds a response that it has not stored yet, another
\* caller that came in during the GET has read k1 from the KeySet stored
\* before.
C15_Witness ==
    \E c, d \in Procs :
        /\ c # d /\ pc[c] = "store_keys" /\ resp[c].keys = <<K2ec, KNoKid>>
        /\ AtReturn(d) /\ h[d].entryBusy /\ jwk[d] = K1
        /\ IsWholeOf(keys_by_kid, <<K1>>)

\* C16: while a caller has its GET in flight, no step of another caller's
\* call is held up, and a call that found its kid in the unexpired cache
\* on entry makes no fetch of its own unless the kid has been removed from
\* the mapping by the time of its lookup.
C16_CachedKidDoesNotWait ==
    \A d \in Procs :
        /\ (\E c \in Procs \ {d} : InFetch(c))
              /\ pc[d] \in {"get_jwk", "lookup", "return", "done"}
              => ENABLED (GetJwkEnter(d) \/ Lookup(d) \/ Return(d)
                            \/ Decode(d, {Good(clock, "m1")}))
        /\ h[d].entryBusy /\ h[d].entryJwk # None /\ ~h[d].entryStale
              /\ h[d].hit # "miss"
              => Attempts(d) = 0

\* A token of the cached k1 has been accepted, from entry to verdict,
\* while the other caller's GET was in flight.
C16_Witness ==
    \E c, d \in Procs :
        /\ c # d /\ InFetch(c) /\ Finished(d) /\ h[d].entryBusy
        /\ h[d].entryJwk = K1 /\ Attempts(d) = 0 /\ ret[d] = "True"

\* Token pl is signed by key k and all its claims are present and valid
\* at time t, exp apart; its alg is not looked at.
GoodButAlgAndExp(pl, k, t) ==
    /\ "exp" \in pl.claims
    /\ GoodFor([pl EXCEPT !.alg = "RS256", !.exp = t], k, t)

\* C17: verify_token rejects every token whose alg is not RS256, the one
\* algorithm of the allow-list, also when its signature fits the key of its kid, and does so before the
\* signature is looked at: the only errors are that of the allow-list and
\* that of line 38 for a key that is neither RSA nor EC.
C17_AlgorithmAllowList ==
    \A c \in Procs :
        Finished(c) /\ jwk[c] # None /\ tok[c].pl.alg # "RS256"
        => /\ ret[c] = "False"
           /\ h[c].reason \in {"InvalidAlgorithmError", "ValueError"}

\* An ES256 token whose signature fits the RSA key of its kid and whose
\* claims are all valid has been rejected for its algorithm.
C17_Witness ==
    \E c \in Procs :
        /\ Finished(c) /\ jwk[c] # None /\ tok[c].pl.alg = "ES256"
        /\ GoodButAlgAndExp(tok[c].pl, jwk[c], h[c].at)
        /\ tok[c].pl.exp = h[c].at - 9
        /\ ret[c] = "False" /\ h[c].reason = "InvalidAlgorithmError"

\* C18: of two RS256 tokens that are valid but for exp, the one whose exp
\* is 11 s in the past is rejected as expired and the one whose exp is
\* 9 s in the past is accepted.
C18_ExpLeeway ==
    \A c \in Procs :
        Finished(c) /\ jwk[c] # None /\ tok[c].pl.alg = "RS256"
            /\ GoodButAlgAndExp(tok[c].pl, jwk[c], h[c].at)
        => /\ tok[c].pl.exp = h[c].at - 11
                => ret[c] = "False" /\ h[c].reason = "ExpiredSignatureError"
           /\ tok[c].pl.exp = h[c].at - 9 => ret[c] = "True"

\* A token whose exp is 9 s in the past and whose nbf is 9 s ahead has
\* been accepted.
C18_Witness ==
    \E c \in Procs :
        /\ Finished(c) /\ jwk[c] # None /\ tok[c].pl.alg = "RS256"
        /\ GoodButAlgAndExp(tok[c].pl, jwk[c], h[c].at)
        /\ tok[c].pl.exp = h[c].at - 9 /\ "nbf" \in tok[c].pl.claims
        /\ ret[c] = "True"

\* C19: verify_token accepts no token whose iss is not ISSUER or whose aud
\* does not contain AUDIENCE.
C19_IssuerAndAudience ==
    \A c \in Procs :
        Finished(c) /\ ret[c] = "True"
        => /\ "iss" \in tok[c].pl.claims /\ tok[c].pl.iss = ISSUER
           /\ "aud" \in tok[c].pl.claims /\ AUDIENCE \in tok[c].pl.aud

\* A token of the right issuer that is valid but for its audience has been
\* rejected for its audience.
C19_Witness ==
    \E c \in Procs :
        /\ Finished(c) /\ jwk[c] # None
        /\ GoodFor([tok[c].pl EXCEPT !.aud = {AUDIENCE}], jwk[c], h[c].at)
        /\ "aud" \in tok[c].pl.claims /\ tok[c].pl.aud = {"aud-other"}
        /\ ret[c] = "False" /\ h[c].reason = "InvalidAudienceError"

\* C20: a call whose token header has no kid or an empty one ends with
\* False at once: it makes no lookup and no fetch and gets no key, whatever
\* the cache holds.
C20_NoKidNoLookup ==
    \A c \in Procs :
        h[c].op = "verify" /\ Kid(c) \in {Absent, ""}
        => /\ pc[c] = "done" /\ ret[c] = "False"
           /\ Attempts(c) = 0 /\ h[c].hit = "none" /\ jwk[c] = None

\* A token with an empty kid has been rejected while the cache held one
\* key only.
C20_Witness ==
    \E c \in Procs :
        /\ Finished(c) /\ tok[c].hdr.form = "ok" /\ Kid(c) = ""
        /\ DOMAIN keys_by_kid = {"k1"} /\ clock < expires_at
        /\ ret[c] = "False" /\ Attempts(c) = 0

\* The registered claims of pl are present and valid at time t.
ClaimsValid(pl, t) ==
    /\ {"exp", "iss", "aud"} \subseteq pl.claims
    /\ pl.exp > t - CLOCK_SKEW_LEEWAY
    /\ "nbf" \in pl.claims => pl.nbf <= t + CLOCK_SKEW_LEEWAY
    /\ pl.iss = ISSUER /\ AUDIENCE \in pl.aud

ClaimErrors ==
    {"MissingRequiredClaimError", "ImmatureSignatureError",
     "ExpiredSignatureError", "InvalidIssuerError", "InvalidAudienceError"}

\* The first check that token pl fails with key k at time t, in the order
\* key construction, algorithm, signature, registered claims, cid.
FirstFailure(pl, k, t) ==
    IF k.kty \notin {"RSA", "EC"} THEN {"ValueError"}
    ELSE IF pl.alg # "RS256" THEN {"InvalidAlgorithmError"}
    ELSE IF k.kty # "RSA" THEN {"InvalidKeyError"}
    ELSE IF pl.signer # k.mat THEN {"InvalidSignatureError"}
    ELSE IF ~ClaimsValid(pl, t) THEN ClaimErrors
    ELSE IF "cid" \notin pl.claims THEN {"no cid"}
    ELSE {"accept", "TypeError"}

\* C21: verify_token stops at the first check that fails, in the order
\* header, kid, key lookup, key construction, algorithm, signature,
\* registered claims, cid: a call that fails before the lookup touches no
\* cache, one that finds no key reads no token, and the failure reported is
\* that of the first failing check whatever the later ones would say.
C21_FixedOrderShortCircuit ==
    \A c \in Procs : Finished(c) =>
        /\ tok[c].hdr.form = "malformed" \/ Kid(c) \in {Absent, ""}
              => /\ ret[c] = "False" /\ h[c].reason = "none"
                 /\ Attempts(c) = 0 /\ h[c].hit = "none"
                 /\ tok[c].pl = NoPayload
        /\ tok[c].hdr.form = "ok" /\ Kid(c) \notin {Absent, ""} /\ jwk[c] = None
              => /\ ret[c] = "False" /\ h[c].reason = "unknown kid"
                 /\ tok[c].pl = NoPayload
        /\ jwk[c] # None
              => /\ h[c].reason \in FirstFailure(tok[c].pl, jwk[c], h[c].at)
                 /\ ret[c] = "True" <=> h[c].reason = "accept"

\* A token with a wrong signature, an exp 11 s in the past, a wrong issuer
\* and no cid has been rejected for its signature.
C21_Witness ==
    \E c \in Procs :
        /\ Finished(c) /\ jwk[c] # None /\ jwk[c].kty = "RSA"
        /\ tok[c].pl.alg = "RS256" /\ tok[c].pl.signer # jwk[c].mat
        /\ "exp" \in tok[c].pl.claims /\ tok[c].pl.exp = h[c].at - 11
        /\ "iss" \in tok[c].pl.claims /\ tok[c].pl.iss # ISSUER
        /\ "cid" \notin tok[c].pl.claims
        /\ ret[c] = "False" /\ h[c].reason = "InvalidSignatureError"

\* The key of the kid asked for was there for the call: in the mapping at
\* the lookup, or in the response that the forced refresh stored.
KeyObtained(c) ==
    \/ h[c].hit = "hit"
    \/ Len(h[c].got) >= 1 /\ h[c].nRot = 1 /\ h[c].rotFail = "none"

\* C22: whatever the token and whatever the provider does, verify_token
\* returns a bool and no exception; it returns False when get_jwk gave no
\* key or a check failed; and when the key was there for the call, in the
\* cache or from the provider, a valid token is accepted even if a fetch of
\* the same call failed.
C22_FailuresBecomeRejects ==
    \A c \in Procs : Finished(c) =>
        /\ ret[c] \in {"True", "False"}
        /\ jwk[c] = None \/ h[c].reason # "accept" => ret[c] = "False"
        /\ KeyObtained(c)
              => /\ jwk[c] # None
                 /\ GoodFor(tok[c].pl, jwk[c], h[c].at) => ret[c] = "True"

\* The provider was down for the first fetch of the call and up for the
\* second: the token has been accepted.
C22_Witness ==
    \E c \in Procs :
        /\ Finished(c) /\ h[c].ttlFail = "transport" /\ h[c].nRot = 1
        /\ h[c].rotFail = "none" /\ h[c].nOk = 1 /\ ret[c] = "True"

ClaimedTtl(cc) ==
    LET I == {i \in 1..Len(cc) : Lower(cc[i].name) = "max-age"
                                   /\ cc[i].arg # Absent /\ IsInt(cc[i].arg)} IN
    IF I = {} THEN DEFAULT_JWKS_TTL
    ELSE IntOf(cc[CHOOSE i \in I : \A j \in I : i <= j].arg)

\* C25: once a refresh has its response, line 48 sets the expiry to the
\* time of the fetch plus the TTL of the header, and no max-age makes the
\* refresh fail.
C25_ExpiryFromMaxAge ==
    [][\A c \in Procs :
          pc[c] = "store_exp" /\ pc'[c] # "store_exp"
          => /\ pc'[c] # "caught"
             /\ expires_at' = clock + ClaimedTtl(resp[c].cc)]_vars

\* The last refresh that returned had a response with max-age=0.
MaxAgeZeroLast ==
    /\ last.set /\ ClaimedTtl(last.cc) = 0
    /\ \E i \in 1..Len(last.cc) : last.cc[i].arg = "0"

\* C26: after a refresh with max-age=0 the expiry is the time of that
\* fetch, not 3600 s later, and the next get_jwk call, whatever its kid and
\* whenever it comes, makes a refresh attempt before its lookup.
C26_MaxAgeZeroNoCaching ==
    /\ [](MaxAgeZeroLast => expires_at = last.at /\ expires_at <= clock)
    /\ [][\A c \in Procs :
            pc[c] = "get_jwk" /\ pc'[c] # "get_jwk" /\ MaxAgeZeroLast
            => pc'[c] = "fetch" /\ h'[c].nTtl = 1 /\ h'[c].phase = "ttl"]_vars

\* In the very second of a refresh with max-age=0, a call for a kid that
\* the mapping holds has its GET in flight.
C26_Witness ==
    \E c \in Procs :
        /\ InFetch(c) /\ h[c].nTtl = 1 /\ h[c].nRot = 0
        /\ h[c].entryJwk # None /\ MaxAgeZeroLast /\ clock = last.at

StaleOrMissingOnEntry(c) ==
    h[c].entryStale \/ h[c].entryEmpty \/ h[c].entryJwk = None

\* C28: a refresh that failed has left the expiry as it was, and the mapping
\* too unless line 46 had run; a get_jwk call on an expired or empty cache
\* always begins with a fetch; when every fetch of such a call fails in
\* transport the call makes one attempt for a cached kid and two for an
\* uncached one; and every call makes at most two attempts, at least one if
\* the cache was stale or lacked the kid.
C28_NoBackoffNoNegativeCaching ==
    /\ [](\A c \in Procs :
            /\ pc[c] = "caught" => expires_at = h[c].preExp
            /\ pc[c] = "caught" /\ CurrentFail(c) # "overflow"
                  => keys_by_kid = h[c].preKeys
            /\ AtReturn(c) /\ OnlyTransport(c)
                  /\ (h[c].entryStale \/ h[c].entryEmpty)
                  => Attempts(c) = IF h[c].entryJwk # None THEN 1 ELSE 2
            /\ AtReturn(c)
                  => /\ Attempts(c) <= 2
                     /\ StaleOrMissingOnEntry(c) => Attempts(c) >= 1)
    /\ [][\A c \in Procs :
            /\ pc[c] = "get_jwk" /\ pc'[c] # "get_jwk"
            /\ (clock >= expires_at \/ keys_by_kid = Empty)
            => pc'[c] = "fetch" /\ h'[c].nTtl = 1]_vars

\* A call for a kid that a loaded, expired cache lacks has made two
\* attempts, and both failed in transport.
C28_Witness ==
    \E c \in Procs :
        /\ AtReturn(c) /\ OnlyTransport(c) /\ h[c].entryLoaded
        /\ h[c].entryStale /\ ~h[c].entryEmpty /\ h[c].entryJwk = None
        /\ Attempts(c) = 2 /\ jwk[c] = None
        /\ last.set /\ expires_at = last.at + ClaimedTtl(last.cc)
        /\ clock >= expires_at /\ keys_by_kid # Empty

\* C29: a get_jwk call that finds a loaded cache empty before its expiry
\* makes the refresh of line 61 before it looks the kid up, and the forced
\* refresh of line 70 as well iff the kid is still missing then: two
\* attempts in that case.
C29_EmptyLoadedCacheRefetches ==
    \A c \in Procs :
        h[c].entryLoaded /\ h[c].entryEmpty /\ ~h[c].entryStale
        => /\ pc[c] \in {"lookup", "rot_lookup", "return"} => h[c].nTtl = 1
           /\ AtReturn(c) =>
                /\ h[c].hit = "miss" <=> h[c].nRot = 1
                /\ h[c].hit = "miss" => Attempts(c) = 2
                /\ h[c].hit = "hit" => Attempts(c) = 1

\* Inside the TTL of a response that had no key with a kid, a call has
\* made two attempts and the cache is still empty.
C29_Witness ==
    \E c \in Procs :
        /\ AtReturn(c) /\ h[c].entryLoaded /\ h[c].entryEmpty
        /\ ~h[c].entryStale /\ Attempts(c) = 2 /\ jwk[c] = None
        /\ last.set /\ last.paired /\ keys_by_kid = Empty
        /\ clock < expires_at

\* C30: whenever a caller is about to read the cache (line 59, 65 or 71) and
\* a KeySet has been stored, the expiry was computed from the response that
\* the mapping was built from.
C30_KeysAndExpiryFromSameFetch ==
    \A c \in Procs :
        pc[c] \in {"get_jwk", "lookup", "rot_lookup"} /\ loaded
        => last.set /\ last.paired

====
